---- MODULE Spec2Model ----
(***************************************************************************)
(* Model of MP4.py: the chunker (chunk_wav), the paragraph formatter       *)
(* (paragraphize), the tool resolver (ensure_ffmpeg) and the job           *)
(* controller of the form (App.on_start on the UI thread, App.run_pipeline *)
(* on worker threads).                                                     *)
(*                                                                         *)
(* Text is a sequence of characters; a character is a one-token string.    *)
(* The full-width marks of the regular expression of paragraphize are      *)
(* written by code point: "U3002" (ideographic full stop), "UFF01"         *)
(* (full-width exclamation mark), "UFF1F" (full-width question mark),      *)
(* "UFF1B" (full-width semicolon).  ".", "!", "?" are the ASCII marks.     *)
(***************************************************************************)
EXTENDS Integers, Sequences, FiniteSets, TLC

VARIABLES
    running,    \* App.running
    threads,    \* the worker threads started so far (App.worker is the last)
    progress,   \* App.progress: [value, maximum]
    logbox,     \* App.logbox: the log lines, as tags
    files,      \* the files on disk beside the input and under transcripts/
    dialog,     \* the message box a worker has open, or NoDialog
    env,        \* where a conversion tool can be found: [local, path]
    ui,         \* outcome of the last press of the start button
    call        \* harness of the pure functions: arguments and result

vars == <<running, threads, progress, logbox, files, dialog, env, ui, call>>

appVars == <<running, threads, progress, logbox, files, dialog, env, ui>>

-----------------------------------------------------------------------------
(* Bounds of the model.                                                    *)

MaxTxtLen == 4

MaxBudget == 5

MaxMinutes == 3

MaxWholeMinutes == 6

MaxSplitLen == 3

MaxJobs == 2


-----------------------------------------------------------------------------
(* Helpers on sequences.                                                   *)

Min(a, b) == IF a <= b THEN a ELSE b

RECURSIVE Concat(_)
\* "".join(list)
Concat(ss) == IF ss = <<>> THEN <<>> ELSE Head(ss) \o Concat(Tail(ss))

RECURSIVE SeqsUpTo(_, _)
\* every sequence over S of length at most n
SeqsUpTo(S, n) ==
    IF n = 0 THEN {<<>>}
    ELSE LET shorter == SeqsUpTo(S, n - 1)
         IN shorter \cup {Append(s, c) : s \in {t \in shorter : Len(t) = n - 1}, c \in S}

-----------------------------------------------------------------------------
(* chunk_wav                                                               *)

MsPerMinute == 60000

RECURSIVE range(_, _, _)
\* Python's range(start, stop, step) for step > 0, as a sequence
range(start, stop, step) ==
    IF start >= stop THEN <<>>
    ELSE <<start>> \o range(start + step, stop, step)

\* audio[i:j] of a waveform of audio_len ms: the slice end is clamped
Slice(audio_len, i, j) == [start |-> Min(i, audio_len), end |-> Min(j, audio_len)]

\* range(0, len(audio)+1, step): one iteration too many at an exact multiple
chunk_wav_inclusive(audio_len, minutes) ==
    LET step == minutes * 60 * 1000
        starts == range(0, audio_len + 1, step)
    IN [k \in 1..Len(starts) |->
           LET i == starts[k]
               seg == Slice(audio_len, i, i + step)
           IN [index |-> i \div step, start |-> seg.start, end |-> seg.end]]

\* the segments written by chunk_wav, in the order they are appended to parts:
\* index is the number in the file name, [start, end) the slice exported
chunk_wav(audio_len, minutes) ==
    LET step == minutes * 60 * 1000
        starts == range(0, audio_len, step)
    IN [k \in 1..Len(starts) |->
           LET i == starts[k]
               seg == Slice(audio_len, i, i + step)
           IN [index |-> i \div step, start |-> seg.start, end |-> seg.end]]

-----------------------------------------------------------------------------
(* paragraphize.  Intermediate results are bound as values, members of     *)
(* singleton sets, so that each is evaluated once.                         *)

\* the character class of re.split(r"([...])", txt) without the semicolon
SplitMarks_no_semicolon == {"U3002", "UFF01", "UFF1F"}

\* the character class of re.split(r"([...])", txt)
SplitMarks == {"U3002", "UFF01", "UFF1F", "UFF1B"}

\* what str.strip() removes
Whitespace == {" ", "\t", "\n"}

\* str.strip(): the text from its first to its last character that is not
\* white space
strip(s) ==
    CHOOSE r \in {LET keep == {i \in 1..Len(v) : v[i] \notin Whitespace}
                  IN IF keep = {} THEN <<>>
                     ELSE SubSeq(v, CHOOSE i \in keep : \A j \in keep : i <= j,
                                    CHOOSE i \in keep : \A j \in keep : j <= i) :
                  v \in {s}} : TRUE

RECURSIVE re_split_from(_, _, _, _)
re_split_from(txt, i, out, piece) ==
    IF i > Len(txt) THEN Append(out, piece)
    ELSE IF txt[i] \in SplitMarks
         THEN re_split_from(txt, i + 1, out \o <<piece, <<txt[i]>>>>, <<>>)
         ELSE re_split_from(txt, i + 1, out, Append(piece, txt[i]))

\* re.split with a capturing group: text, mark, text, mark, ..., text
re_split(txt) == re_split_from(txt, 1, <<>>, <<>>)

\* sents = ["".join(sents[i:i+2]).strip() for i in range(0, len(sents), 2)],
\* sents being the list re.split returned
sents(txt) ==
    CHOOSE r \in {[k \in 1..((Len(ps) + 1) \div 2) |->
                      strip(Concat(SubSeq(ps, 2 * k - 1, Min(2 * k, Len(ps)))))] :
                  ps \in {re_split(txt)}} : TRUE

\* len(cur) + len(s) <= target_max
fits_le(cur, s, target_max) == Len(cur) + Len(s) <= target_max

\* len(cur) + len(s) < target_max
fits(cur, s, target_max) == Len(cur) + Len(s) < target_max

\* if cur.strip(): buf.append(cur.strip())
flush(buf, cur) ==
    CHOOSE r \in {IF c # <<>> THEN Append(buf, c) ELSE buf : c \in {strip(cur)}} : TRUE

\* the flushing branch forgets to start the new buffer with the sentence
loop_body_drop(st, s, target_max) ==
    IF fits(st.cur, s, target_max)
    THEN [buf |-> st.buf, cur |-> st.cur \o s]
    ELSE [buf |-> flush(st.buf, st.cur), cur |-> <<>>]

\* the flushing branch keeps the old buffer in front of the sentence
loop_body_merge(st, s, target_max) ==
    IF fits(st.cur, s, target_max)
    THEN [buf |-> st.buf, cur |-> st.cur \o s]
    ELSE [buf |-> flush(st.buf, st.cur), cur |-> st.cur \o s]

\* one iteration of "for s in sents" on the state (buf, cur)
loop_body(st, s, target_max) ==
    IF fits(st.cur, s, target_max)
    THEN [buf |-> st.buf, cur |-> st.cur \o s]
    ELSE [buf |-> flush(st.buf, st.cur), cur |-> s]

RECURSIVE loop(_, _, _)
\* "for s in sents": the state after the sentences ss, from the state st.  The
\* state after one iteration and the rest of the list are bound as values
\* (members of singleton sets), each evaluated once.
loop(st, ss, target_max) ==
    IF ss = <<>> THEN st
    ELSE CHOOSE r \in {loop(next, rest, target_max) :
                          next \in {loop_body(st, Head(ss), target_max)},
                          rest \in {Tail(ss)}} : TRUE

\* the trailing buffer is never flushed
paragraphize_no_tail(txt, target_max) ==
    CHOOSE r \in {st.buf :
                  st \in {loop([buf |-> <<>>, cur |-> <<>>], sents(txt), target_max)}} : TRUE

paragraphize(txt, target_max) ==
    CHOOSE r \in {flush(st.buf, st.cur) :
                  st \in {loop([buf |-> <<>>, cur |-> <<>>], sents(txt), target_max)}} : TRUE

-----------------------------------------------------------------------------
(* The form and its job: state before any job.                             *)

NoDialog == [kind |-> "none"]

NoCall == [fn |-> "none"]

AppIdle ==
    /\ running = FALSE
    /\ threads = <<>>
    /\ progress = [value |-> 0, maximum |-> 100]
    /\ logbox = <<>>
    /\ files = {}
    /\ dialog = NoDialog
    /\ env = [local |-> TRUE, path |-> TRUE, audio_len |-> 0]
    /\ ui = "none"

-----------------------------------------------------------------------------
(* ensure_ffmpeg                                                           *)

\* the RuntimeError of ensure_ffmpeg: its message names two remedies
FfmpegNotFound ==
    [type |-> "RuntimeError",
     remedies |-> {"put ffmpeg.exe in the program folder", "add ffmpeg to PATH"}]

\* any other exception of a pipeline step
StepFailed == [type |-> "Exception", remedies |-> {}]

NoException == [type |-> "none", remedies |-> {}]

\* "if not ff: raise" is missing: the result of shutil.which goes unchecked
ensure_ffmpeg_unchecked(e) ==
    IF e.local THEN "local" ELSE "path"

\* the tool beside the program first, then the search path; "missing" stands
\* for the RuntimeError raised when neither has it
ensure_ffmpeg(e) ==
    IF e.local THEN "local"
    ELSE IF e.path THEN "path"
    ELSE "missing"

-----------------------------------------------------------------------------
(* App.on_start, on the UI thread.                                         *)

\* the entries of the form a press of the start button reads
Mp4Inputs == {"", "nofile.mp4", "talk.mp4"}

\* minutes typed in the spinbox (0 makes range() raise)
FormMinutes == {0, 1, 2}

FormBudgets == {3, 170}

\* the audio track of talk.mp4, in ms
FormAudioLengths == {0, 90 * 1000}

\* a worker thread at the first statement of run_pipeline(params)
NewThread(params) ==
    [pc |-> "ensure_ffmpeg", p |-> params, ff |-> "unset", parts |-> <<>>,
     idx |-> 0, texts |-> <<>>, exc |-> NoException, notified |-> FALSE]

NoParams == [minutes |-> 0, para_max |-> 0]

\* threads that have not left run_pipeline
Active == {i \in DOMAIN threads : threads[i].pc # "returned"}

\* on_start without "if self.running: return"
on_start_unguarded(mp4_input, minutes, para_max) ==
    /\ UNCHANGED <<files, dialog, env, call>>
    /\ \/ /\ mp4_input = ""
          /\ ui' = "warn_empty"
          /\ UNCHANGED <<running, threads, progress, logbox>>
       \/ /\ mp4_input = "nofile.mp4"
          /\ ui' = "err_not_found"
          /\ UNCHANGED <<running, threads, progress, logbox>>
       \/ /\ mp4_input = "talk.mp4"
          /\ Len(threads) < MaxJobs + 1
          /\ running' = TRUE
          /\ progress' = [progress EXCEPT !.value = 0]
          /\ logbox' = <<"start">>
          /\ threads' = Append(threads, NewThread([minutes |-> minutes, para_max |-> para_max]))
          /\ ui' = "started"

on_start(mp4_input, minutes, para_max) ==
    /\ UNCHANGED <<files, dialog, env, call>>
    /\ \/ /\ running
          /\ ui' = "ignored"
          /\ UNCHANGED <<running, threads, progress, logbox>>
       \/ /\ ~running
          /\ mp4_input = ""
          /\ ui' = "warn_empty"
          /\ UNCHANGED <<running, threads, progress, logbox>>
       \/ /\ ~running
          /\ mp4_input = "nofile.mp4"
          /\ ui' = "err_not_found"
          /\ UNCHANGED <<running, threads, progress, logbox>>
       \/ /\ ~running
          /\ mp4_input = "talk.mp4"
          /\ Len(threads) < MaxJobs
          /\ running' = TRUE
          /\ progress' = [progress EXCEPT !.value = 0]
          /\ logbox' = <<"start">>
          /\ threads' = Append(threads, NewThread([minutes |-> minutes, para_max |-> para_max]))
          /\ ui' = "started"

OnStart ==
    \E mp4_input \in Mp4Inputs, minutes \in FormMinutes, para_max \in FormBudgets :
        on_start(mp4_input, minutes, para_max)

\* the user installs or removes the conversion tool
EnvChange ==
    /\ \E l \in BOOLEAN, pth \in BOOLEAN :
          /\ <<l, pth>> # <<env.local, env.path>>
          /\ env' = [env EXCEPT !.local = l, !.path = pth]
    /\ UNCHANGED <<running, threads, progress, logbox, files, dialog, ui, call>>

-----------------------------------------------------------------------------
(* App.run_pipeline, on a worker thread: one action per step.              *)

FileName(kind, index) == [kind |-> kind, index |-> index]

\* writing a file replaces the file of that name
WriteFile(fs, name, content) ==
    {f \in fs : f.name # name} \cup {[name |-> name, content |-> content]}

RECURSIVE WriteParts(_, _, _)
\* the first n segment files of parts, written in order
WriteParts(fs, parts, n) ==
    IF n = 0 THEN fs
    ELSE WriteFile(WriteParts(fs, parts, n - 1),
                   FileName("part", parts[n].index),
                   [start |-> parts[n].start, end |-> parts[n].end])

\* the text the recognizer returns for a segment file: a sentence naming it
Fragment(part) == <<ToString(part.index), "U3002">>

RECURSIVE JoinParas(_)
\* "\n\n".join(paras)
JoinParas(paras) ==
    IF paras = <<>> THEN <<>>
    ELSE IF Len(paras) = 1 THEN paras[1]
    ELSE paras[1] \o <<"\n", "\n">> \o JoinParas(Tail(paras))

\* an exception leaves the try block: control goes to the except clause
Raise(i, e) == [threads EXCEPT ![i].pc = "except", ![i].exc = e]

Log(line) == Append(logbox, line)

EnsureFfmpeg(i) ==
    /\ threads[i].pc = "ensure_ffmpeg"
    /\ LET ff == ensure_ffmpeg(env)
       IN IF ff = "missing"
          THEN /\ threads' = [Raise(i, FfmpegNotFound) EXCEPT ![i].ff = ff]
               /\ UNCHANGED logbox
          ELSE /\ threads' = [threads EXCEPT ![i].pc = "extract", ![i].ff = ff]
               /\ logbox' = Log("ffmpeg_ok")
    /\ UNCHANGED <<running, progress, files, dialog, env, ui, call>>

ExtractWav(i) ==
    /\ threads[i].pc = "extract"
    /\ logbox' = Log("extracting")
    /\ \/ /\ files' = WriteFile(files, FileName("wav", 0), [start |-> 0, end |-> env.audio_len])
          /\ threads' = [threads EXCEPT ![i].pc = "chunk"]
       \/ /\ UNCHANGED files
          /\ threads' = Raise(i, StepFailed)
    /\ UNCHANGED <<running, progress, dialog, env, ui, call>>

ChunkWav(i) ==
    /\ threads[i].pc = "chunk"
    /\ IF threads[i].p.minutes = 0
       THEN \* range() arg 3 must not be zero
            /\ threads' = Raise(i, StepFailed)
            /\ UNCHANGED <<files, logbox, progress>>
       ELSE LET parts == chunk_wav(env.audio_len, threads[i].p.minutes)
            IN \/ /\ files' = WriteParts(files, parts, Len(parts))
                  /\ logbox' = Log("chunked")
                  /\ progress' = [maximum |-> Len(parts), value |-> 0]
                  /\ threads' = [threads EXCEPT ![i].pc = "load_model", ![i].parts = parts]
               \/ \E n \in 0..(Len(parts) - 1) :
                     /\ files' = WriteParts(files, parts, n)
                     /\ threads' = Raise(i, StepFailed)
                     /\ UNCHANGED <<logbox, progress>>
    /\ UNCHANGED <<running, dialog, env, ui, call>>

LoadModel(i) ==
    /\ threads[i].pc = "load_model"
    /\ logbox' = Log("loading_model")
    /\ \/ threads' = [threads EXCEPT ![i].pc = "loop"]
       \/ threads' = Raise(i, StepFailed)
    /\ UNCHANGED <<running, progress, files, dialog, env, ui, call>>

\* for idx, part in enumerate(parts, 1): the next part, or the end of the loop
LoopHead(i) ==
    /\ threads[i].pc = "loop"
    /\ IF threads[i].idx < Len(threads[i].parts)
       THEN /\ logbox' = Log("transcribing")
            /\ threads' = [threads EXCEPT ![i].pc = "transcribing", ![i].idx = @ + 1]
       ELSE /\ UNCHANGED logbox
            /\ threads' = [threads EXCEPT ![i].pc = "output"]
    /\ UNCHANGED <<running, progress, files, dialog, env, ui, call>>

\* texts.insert(0, piece)
append_text_in_front(texts, piece) == <<piece>> \o texts

\* texts.append(piece)
append_text(texts, piece) == Append(texts, piece)

\* model.transcribe returns, however long it took; the fragment is appended
Transcribe(i) ==
    /\ threads[i].pc = "transcribing"
    /\ \/ /\ threads' = [threads EXCEPT
                 ![i].pc = "loop",
                 ![i].texts = append_text(@, Fragment(threads[i].parts[threads[i].idx]))]
          /\ progress' = [progress EXCEPT !.value = @ + 1]
       \/ /\ threads' = Raise(i, StepFailed)
          /\ UNCHANGED progress
    /\ UNCHANGED <<running, logbox, files, dialog, env, ui, call>>

\* "\n\n".join(paragraphize("".join(texts), target_max=p["para_max"]))
TranscriptText(texts, para_max) == JoinParas(paragraphize(Concat(texts), para_max))

\* join, paragraphize, write the transcript
Output(i) ==
    /\ threads[i].pc = "output"
    /\ \/ /\ threads' = [threads EXCEPT ![i].pc = "finally"]
          /\ logbox' = logbox \o <<"transcribed", "written", "all_done">>
          /\ files' = WriteFile(files, FileName("txt", 0),
                                TranscriptText(threads[i].texts, threads[i].p.para_max))
       \/ /\ threads' = Raise(i, StepFailed)
          /\ logbox' = Log("transcribed")
          /\ UNCHANGED files
    /\ UNCHANGED <<running, progress, dialog, env, ui, call>>

\* except Exception as e: two log lines, then messagebox.showerror(str(e))
Except(i) ==
    /\ threads[i].pc = "except"
    /\ logbox' = logbox \o <<"error", "traceback">>
    /\ dialog' = [kind |-> "error", remedies |-> threads[i].exc.remedies]
    /\ threads' = [threads EXCEPT ![i].pc = "dialog", ![i].notified = TRUE]
    /\ UNCHANGED <<running, progress, files, env, ui, call>>

\* the user closes the message box; showerror returns
DialogClosed(i) ==
    /\ threads[i].pc = "dialog"
    /\ dialog' = NoDialog
    /\ threads' = [threads EXCEPT ![i].pc = "finally"]
    /\ UNCHANGED <<running, progress, logbox, files, env, ui, call>>

\* the locals of run_pipeline are gone when it returns; exc and notified
\* are kept as the record of how the job ended
Returned(t) ==
    [pc |-> "returned", p |-> NoParams, ff |-> "unset", parts |-> <<>>,
     idx |-> 0, texts |-> <<>>, exc |-> t.exc, notified |-> t.notified]

\* "self.running = False" at the end of the try block instead of in finally
Finally_only_on_success(i) ==
    /\ threads[i].pc = "finally"
    /\ running' = IF threads[i].exc = NoException THEN FALSE ELSE running
    /\ threads' = [threads EXCEPT ![i] = Returned(@)]
    /\ UNCHANGED <<progress, logbox, files, dialog, env, ui, call>>

\* finally: self.running = False, and run_pipeline returns
Finally(i) ==
    /\ threads[i].pc = "finally"
    /\ running' = FALSE
    /\ threads' = [threads EXCEPT ![i] = Returned(@)]
    /\ UNCHANGED <<progress, logbox, files, dialog, env, ui, call>>

WorkerStep(i) ==
    \/ EnsureFfmpeg(i)
    \/ ExtractWav(i)
    \/ ChunkWav(i)
    \/ LoadModel(i)
    \/ LoopHead(i)
    \/ Transcribe(i)
    \/ Output(i)
    \/ Except(i)
    \/ DialogClosed(i)
    \/ Finally(i)

Worker == \E i \in DOMAIN threads : WorkerStep(i)

Init ==
    /\ running = FALSE
    /\ threads = <<>>
    /\ progress = [value |-> 0, maximum |-> 100]
    /\ logbox = <<>>
    /\ files = {}
    /\ dialog = NoDialog
    /\ env \in {[local |-> l, path |-> pth, audio_len |-> a] :
                   l \in BOOLEAN, pth \in BOOLEAN, a \in FormAudioLengths}
    /\ ui = "none"
    /\ call = NoCall

Next ==
    \/ OnStart
    \/ EnvChange
    \/ \E i \in DOMAIN threads : EnsureFfmpeg(i)
    \/ \E i \in DOMAIN threads : ExtractWav(i)
    \/ \E i \in DOMAIN threads : ChunkWav(i)
    \/ \E i \in DOMAIN threads : LoadModel(i)
    \/ \E i \in DOMAIN threads : LoopHead(i)
    \/ \E i \in DOMAIN threads : Transcribe(i)
    \/ \E i \in DOMAIN threads : Output(i)
    \/ \E i \in DOMAIN threads : Except(i)
    \/ \E i \in DOMAIN threads : DialogClosed(i)
    \/ \E i \in DOMAIN threads : Finally(i)

Spec == Init /\ [][Next]_vars

\* the scheduler runs a worker thread that can take a step; transcription
\* ends and the user closes the message box
FairSpec == Spec /\ WF_vars(Worker)

-----------------------------------------------------------------------------
(* The pure functions under test: inputs drawn by Init, one call each.     *)

\* the transcript of the first end-to-end scenario: three sentences of four
\* characters and an ideographic full stop
Example3x5 ==
    <<"di", "yi", "ju", "hua", "U3002", "di", "er", "ju", "hua", "U3002",
      "di", "san", "ju", "hua", "U3002">>

\* the transcript of the second end-to-end scenario: sentences of 7 and 8
ExampleWeather ==
    <<"jin", "tian", "tian", "qi", "hen", "hao", "U3002",
      "wo", "men", "qu", "gong", "yuan", "san", "bu", "U3002">>

\* an ordinary character, white space, two of the marks that split, and an
\* ASCII full stop
ParaAlphabet == {"a", " ", "U3002", "UFF1F", "."}

Texts == SeqsUpTo(ParaAlphabet, MaxTxtLen) \cup {Example3x5, ExampleWeather}

\* budgets, with those of the scenarios and the form's default
Budgets == (0..MaxBudget) \cup {10, 170}

ParaInit ==
    /\ AppIdle
    /\ call \in {[fn |-> "paragraphize", txt |-> t, target_max |-> b,
                  done |-> FALSE, ret |-> <<>>] : t \in Texts, b \in Budgets}

CallParagraphize ==
    /\ call.fn = "paragraphize"
    /\ ~call.done
    /\ call' = [call EXCEPT !.done = TRUE,
                            !.ret = paragraphize(call.txt, call.target_max)]
    /\ UNCHANGED appVars

ParaSpec == ParaInit /\ [][CallParagraphize]_vars

SplitAlphabet == {"a", " ", "U3002", "UFF01", "UFF1F", "UFF1B", ".", "!", "?"}

SplitInit ==
    /\ AppIdle
    /\ call \in {[fn |-> "sents", txt |-> t, done |-> FALSE, ret |-> <<>>] :
                    t \in SeqsUpTo(SplitAlphabet, MaxSplitLen)}

CallSents ==
    /\ call.fn = "sents"
    /\ ~call.done
    /\ call' = [call EXCEPT !.done = TRUE, !.ret = sents(call.txt)]
    /\ UNCHANGED appVars

SplitSpec == SplitInit /\ [][CallSents]_vars

AudioLengths ==
    {m * MsPerMinute + r : m \in 0..MaxWholeMinutes, r \in {0, 1, 30000, 59999}}
        \cup {45 * MsPerMinute}

ChunkMinutes == (1..MaxMinutes) \cup {20}

ChunkInit ==
    /\ AppIdle
    /\ call \in {[fn |-> "chunk_wav", audio_len |-> l, minutes |-> m,
                  done |-> FALSE, ret |-> <<>>] : l \in AudioLengths, m \in ChunkMinutes}

CallChunkWav ==
    /\ call.fn = "chunk_wav"
    /\ ~call.done
    /\ call' = [call EXCEPT !.done = TRUE,
                            !.ret = chunk_wav(call.audio_len, call.minutes)]
    /\ UNCHANGED appVars

ChunkSpec == ChunkInit /\ [][CallChunkWav]_vars

-----------------------------------------------------------------------------
(* Claims about chunk_wav.                                                 *)

CeilDiv(a, b) == (a + b - 1) \div b

\* C1: for d = minutes*60*1000 > 0 and a waveform of L ms, chunk_wav returns
\* ceil(L/d) segments numbered 0, 1, 2, ... in time order; segment k is
\* [k*d, min((k+1)*d, L)); all but the last are d long, the last is in (0, d],
\* and together they cover [0, L) without gap or overlap.  45 minutes in
\* chunks of 20 give segments 0, 1, 2 of 20, 20 and 5 minutes.
C1_ChunkPartition ==
    (call.fn = "chunk_wav" /\ call.done) =>
        LET d == call.minutes * 60 * 1000
            L == call.audio_len
            parts == call.ret
            n == Len(parts)
        IN /\ n = CeilDiv(L, d)
           /\ \A k \in 1..n :
                 /\ parts[k].index = k - 1
                 /\ parts[k].start = (k - 1) * d
                 /\ parts[k].end = Min(k * d, L)
                 /\ k < n => parts[k].end - parts[k].start = d
                 /\ k = n => /\ parts[k].end - parts[k].start > 0
                             /\ parts[k].end - parts[k].start <= d
                 /\ k < n => parts[k].end = parts[k + 1].start
           /\ n > 0 => parts[1].start = 0 /\ parts[n].end = L
           /\ n = 0 => L = 0
           /\ (L = 45 * 60 * 1000 /\ call.minutes = 20) =>
                 /\ [k \in 1..n |-> parts[k].index] = <<0, 1, 2>>
                 /\ [k \in 1..n |-> parts[k].end - parts[k].start] =
                        <<20 * 60 * 1000, 20 * 60 * 1000, 5 * 60 * 1000>>

\* the 45-minute waveform has been cut in chunks of 20 minutes
C1_Witness ==
    /\ call.fn = "chunk_wav" /\ call.done
    /\ call.audio_len = 45 * 60 * 1000 /\ call.minutes = 20
    /\ Len(call.ret) = 3

-----------------------------------------------------------------------------
(* Claims about paragraphize.                                              *)

\* the positions of txt holding a character of the set marks
Positions(txt, marks) == {i \in 1..Len(txt) : txt[i] \in marks}

\* the marks the claim names: the full stop, the exclamation mark and the
\* question mark, ASCII and full-width
ClaimedMarks == {".", "!", "?", "U3002", "UFF01", "UFF1F"}

\* a sentence holds no mark of the set before its last character
SplitAtEvery(ss, marks) ==
    \A k \in 1..Len(ss) : \A i \in 1..(Len(ss[k]) - 1) : ss[k][i] \notin marks

\* every sentence but the last ends with a mark of the set
MarkStaysAttached(ss, marks) ==
    \A k \in 1..(Len(ss) - 1) : ss[k] # <<>> /\ ss[k][Len(ss[k])] \in marks

\* C6 as stated: the text is split at every full stop, exclamation mark and
\* question mark, ASCII or full-width, the mark staying at the end of the
\* sentence before it.
C6_SplitsAtClaimedMarks ==
    (call.fn = "sents" /\ call.done) => SplitAtEvery(call.ret, ClaimedMarks)

\* the full-width marks, as the claims name them
FullWidthMarks == {"U3002", "UFF01", "UFF1F", "UFF1B"}

\* the k-th of the cuts (positions, a set), in increasing order
NthCut(cuts, k) == CHOOSE c \in cuts : Cardinality({x \in cuts : x <= c}) = k

\* the text cut after every position holding a mark of the set: each stretch
\* runs to its mark, the last one to the end of the text; each is stripped of
\* surrounding white space
Stretches(txt, marks) ==
    LET cuts == Positions(txt, marks)
        n == Cardinality(cuts) + 1
    IN [k \in 1..n |->
           LET lo == IF k = 1 THEN 1 ELSE 1 + NthCut(cuts, k - 1)
               hi == IF k = n THEN Len(txt) ELSE NthCut(cuts, k)
           IN strip(SubSeq(txt, lo, hi))]

\* C6 as amended: the text is split at every full-width mark U+3002, U+FF01,
\* U+FF1F and U+FF1B and nowhere else (not at the ASCII marks): there is one
\* sentence more than there are such marks, each mark is the last character
\* of the sentence before the split, and the sentences are the stretches of
\* the text between the splits, stripped of surrounding white space.
C6_SplitsAtFullWidthMarks ==
    (call.fn = "sents" /\ call.done) =>
        LET ss == call.ret
        IN /\ Len(ss) = Cardinality(Positions(call.txt, FullWidthMarks)) + 1
           /\ SplitAtEvery(ss, FullWidthMarks)
           /\ MarkStaysAttached(ss, FullWidthMarks)
           /\ ss = Stretches(call.txt, FullWidthMarks)

\* a text holding an ASCII full stop and a full-width semicolon has been split
C6_Witness ==
    /\ call.fn = "sents" /\ call.done
    /\ call.txt = <<".", "UFF1B", "a">>
    /\ call.ret = <<<<".", "UFF1B">>, <<"a">>>>

\* the sentences a text is made of: its non-empty stretches
SentencesOf(txt) == SelectSeq(Stretches(txt, FullWidthMarks), LAMBDA x : x # <<>>)

ParaDone == call.fn = "paragraphize" /\ call.done

\* C7: the paragraphs, rejoined in order without separator, are the
\* concatenation in order of the sentences of the split step (the stretches
\* of the input between the splits, each stripped of surrounding white space).
C7_RejoinIsSentenceConcat ==
    ParaDone => Concat(call.ret) = Concat(Stretches(call.txt, FullWidthMarks))

\* white space around a sentence was dropped and the sentences of the input
\* went to two paragraphs
C7_Witness ==
    /\ ParaDone
    /\ call.txt = <<" ", "a", "U3002", "a">> /\ call.target_max = 2
    /\ call.ret = <<<<"a", "U3002">>, <<"a">>>>
    /\ Concat(call.ret) # call.txt

\* C8: greedy accumulation.  A sentence joins the buffer only if the length
\* then stays strictly below the budget (a paragraph of several sentences is
\* shorter than the budget); a paragraph ends only where the next sentence
\* would have made it reach or exceed the budget, and that sentence opens the
\* next paragraph (the sentences of the paragraphs, in order, are the
\* sentences of the input).  Budget 10 on three sentences of 5 gives three
\* paragraphs; budget 170 on sentences of 7 and 8 gives the input back.
C8_GreedyAccumulation ==
    ParaDone =>
        LET ps == call.ret
            B == call.target_max
        IN /\ \A j \in 1..Len(ps) : Len(SentencesOf(ps[j])) >= 2 => Len(ps[j]) < B
           /\ \A j \in 1..(Len(ps) - 1) :
                 Len(ps[j]) + Len(SentencesOf(ps[j + 1])[1]) >= B
           /\ Concat([j \in 1..Len(ps) |-> SentencesOf(ps[j])]) = SentencesOf(call.txt)
           /\ (call.txt = Example3x5 /\ B = 10) =>
                 ps = <<SubSeq(Example3x5, 1, 5), SubSeq(Example3x5, 6, 10),
                        SubSeq(Example3x5, 11, 15)>>
           /\ (call.txt = ExampleWeather /\ B = 170) => ps = <<ExampleWeather>>

\* the scenario with budget 10 has run, giving three paragraphs
C8_Witness ==
    /\ ParaDone
    /\ call.txt = Example3x5 /\ call.target_max = 10
    /\ Len(call.ret) = 3

\* C9: a paragraph is shorter than the budget or is exactly one sentence; a
\* sentence that reaches or exceeds the budget is a paragraph of its own,
\* neither split nor merged with a neighbour.
C9_UnderBudgetOrOneSentence ==
    ParaDone =>
        LET ps == call.ret
            B == call.target_max
            ss == SentencesOf(call.txt)
        IN /\ \A j \in 1..Len(ps) : Len(ps[j]) < B \/ Len(SentencesOf(ps[j])) = 1
           /\ \A j \in 1..Len(ps) : \A k \in 1..Len(SentencesOf(ps[j])) :
                 Len(SentencesOf(ps[j])[k]) >= B => ps[j] = SentencesOf(ps[j])[k]
           /\ \A i \in 1..Len(ss) :
                 Len(ss[i]) >= B => \E j \in 1..Len(ps) : ps[j] = ss[i]

\* a sentence of three characters under budget 2 came out whole, as a
\* paragraph of its own, before the sentence that follows it
C9_Witness ==
    /\ ParaDone
    /\ call.txt = <<"a", "a", "U3002", "a">> /\ call.target_max = 2
    /\ call.ret = <<<<"a", "a", "U3002">>, <<"a">>>>

\* C10: paragraphize applied with the same budget to one of its output
\* paragraphs that is shorter than the budget returns that paragraph alone,
\* unchanged.
C10_Idempotent ==
    ParaDone =>
        \A j \in 1..Len(call.ret) :
            Len(call.ret[j]) < call.target_max =>
                paragraphize(call.ret[j], call.target_max) = <<call.ret[j]>>

\* an output paragraph of two sentences, shorter than the budget
C10_Witness ==
    /\ ParaDone
    /\ call.txt = <<"a", "U3002", "a", "U3002">> /\ call.target_max = 5
    /\ call.ret = <<call.txt>>

-----------------------------------------------------------------------------
(* Claims about the job controller.                                        *)

\* the fragments of the chunks 0 .. n-1, in index order
FragmentsUpTo(n) == [k \in 1..n |-> <<ToString(k - 1), "U3002">>]

\* C2: chunks are transcribed one at a time in ascending index.  While chunk
\* number idx (counted from 1) is being transcribed, texts holds exactly the
\* fragments of the chunks before it, in index order; between two chunks it
\* holds those of the chunks done so far; and the transcript written is
\* made of the concatenation of all fragments in index order.
C2_FragmentsInChunkOrder ==
    \A i \in DOMAIN threads :
        LET t == threads[i]
        IN /\ t.pc = "transcribing" =>
                 /\ t.idx \in 1..Len(t.parts)
                 /\ t.parts[t.idx].index = t.idx - 1
                 /\ t.texts = FragmentsUpTo(t.idx - 1)
           /\ t.pc = "loop" => t.texts = FragmentsUpTo(t.idx)
           /\ t.pc = "output" => t.texts = FragmentsUpTo(Len(t.parts))
           /\ (t.pc = "finally" /\ t.exc = NoException) =>
                 \E f \in files :
                     /\ f.name = FileName("txt", 0)
                     /\ f.content = JoinParas(paragraphize(
                            Concat(FragmentsUpTo(Len(t.parts))), t.p.para_max))

\* the second of two chunks is being transcribed, after other events (a
\* press of the button while running) went by
C2_Witness ==
    \E i \in DOMAIN threads :
        /\ threads[i].pc = "transcribing"
        /\ threads[i].idx = 2
        /\ threads[i].texts = <<<<"0", "U3002">>>>
        /\ ui = "ignored"

\* C3: at most one worker is inside run_pipeline at any time, and a press of
\* the start button while a job runs is ignored: it starts no thread and
\* leaves the running flag, the progress bar and the log as they are.
C3_SingleJob ==
    [][/\ Cardinality(Active') <= 1
       /\ (running /\ ui' # ui) =>
             /\ ui' = "ignored"
             /\ threads' = threads
             /\ progress' = progress
             /\ logbox' = logbox
             /\ running' = running]_vars

\* the button was pressed while a worker was transcribing, and ignored
C3_Witness ==
    /\ ui = "ignored"
    /\ running
    /\ \E i \in DOMAIN threads : threads[i].pc = "transcribing"
    /\ progress.value = 1
    /\ Cardinality(Active) = 1

C5_MissingToolAborts ==
    [][\A i \in DOMAIN threads :
          /\ (threads[i].pc = "ensure_ffmpeg" /\ ~env.local /\ ~env.path
                /\ threads'[i] # threads[i]) =>
                 /\ threads'[i].pc = "except"
                 /\ threads'[i].ff = "missing"
                 /\ threads'[i].exc = FfmpegNotFound
                 /\ files' = files
          /\ (threads[i].ff = "missing" /\ threads[i].pc # "returned") =>
                 /\ files' = files
                 /\ threads'[i].pc \in {"except", "dialog", "finally", "returned"}
                 /\ threads'[i].pc = "dialog" =>
                        /\ dialog'.kind = "error"
                        /\ dialog'.remedies =
                               {"put ffmpeg.exe in the program folder", "add ffmpeg to PATH"}]_vars

\* the job found no tool, its message box is open, and no file exists
C5_Witness ==
    /\ \E i \in DOMAIN threads : threads[i].ff = "missing" /\ threads[i].pc = "dialog"
    /\ dialog.kind = "error"
    /\ Cardinality(dialog.remedies) = 2
    /\ files = {}

====
